---------------------------- MODULE Spec2Model ----------------------------
(***************************************************************************)
(* HerculesConfig (src/hercules_config.py): lookup of configuration files  *)
(* under conf/ with conf/import/ overrides, and the regex-based get / set  *)
(* of one "key: value" setting.                                            *)
(* Autolycus (src/autolycus.py): the supervision of the server processes   *)
(* through pid files and the process table.                                *)
(*                                                                         *)
(* A text is a sequence of one-character strings.  A path is a sequence of *)
(* path components below conf/.  The file system is a function from the    *)
(* paths of the existing files to their texts.  The process table is a     *)
(* function from the pids of the live processes to their names, the pid    *)
(* files a function from the servers that have one to the pid it holds.    *)
(* The SQL side of Autolycus: the wait for the database, the choice of the  *)
(* upgrade files by their date, and the import of an SQL file statement by  *)
(* statement.  An SQL file is the sequence of its lines, each a text.       *)
(***************************************************************************)
EXTENDS Integers, Sequences, FiniteSets

VARIABLES
    fs,     \* the files below conf/: [existing paths -> text]
    scan,   \* the order in which os.scandir lists the sub-directories
    prev,   \* fs as it was when the last call started
    last,   \* the last call of get / set: arguments and outcome
    procs,  \* the process table: [live pids -> process name]
    pidfile,\* the pid files: [servers with a pid file -> pid]
    run,    \* the last call of the process supervision: arguments, the
            \* state it found, the signals it sent and its outcome
    sqlfiles,   \* the SQL files: [existing file names -> lines]
    build_date, \* version_info['build_date']
    sql     \* the last call of the SQL side: arguments and what it did

confvars == <<fs, scan, prev, last>>
procvars == <<procs, pidfile, run>>
sqlvars == <<sqlfiles, build_date, sql>>
vars == <<fs, scan, prev, last, procs, pidfile, run, sqlfiles, build_date, sql>>

\* No call of the SQL side was made yet
NoSql ==
    [op |-> "none", timeout |-> 0, force |-> FALSE, file |-> "",
     outcome |-> "none", polls |-> 0, seen |-> <<>>, imported |-> <<>>,
     executed |-> <<>>, errors |-> {}]

-----------------------------------------------------------------------------
(* Bounds of the model *)

\* Longest text set may write: caps the growth of repeated sets.
MaxText == 16
\* Most files that exist initially (specification Spec).
MaxFiles == 2
\* Most lines of the initial file (specification SpecText).
MaxLines == 2
\* Longest wait for the database, in polls (specification SpecSql).
MaxTimeout == 3
\* Most lines of the imported SQL file (specification SpecImport).
MaxSqlLines == 3
\* Highest pid (specification SpecProc).
MaxPid == 2

-----------------------------------------------------------------------------
(* Characters and regular expressions *)

NL == "\n"
QUOTE == "\""

\* \s of the regular expressions, over the characters of the model
IsSpace(c) == c \in {" ", NL}

\* s.startswith(w, i-1): w occurs in s at position i
HasAt(s, i, w) ==
    /\ i >= 1
    /\ i + Len(w) - 1 <= Len(s)
    /\ \A n \in 1..Len(w) : s[i + n - 1] = w[n]

\* \s* from position i (greedy): the first position >= i that holds no space
RECURSIVE SkipSpace(_, _)
SkipSpace(s, i) ==
    IF i <= Len(s) /\ IsSpace(s[i]) THEN SkipSpace(s, i + 1) ELSE i

\* .* from position i: the position of the next line break, or Len(s) + 1
RECURSIVE EndOfLine(_, _)
EndOfLine(s, i) ==
    IF i <= Len(s) /\ s[i] # NL THEN EndOfLine(s, i + 1) ELSE i

\* setting\s*: matches s at position j
KeyAt(s, setting, j) ==
    /\ HasAt(s, j, setting)
    /\ LET c == SkipSpace(s, j + Len(setting))
       IN  c <= Len(s) /\ s[c] = ":"

KeyPositions(s, setting) == {j \in 1..Len(s) : KeyAt(s, setting, j)}

\* re.search(r'\s*%s\s*:.*' % setting, s) is not None
ReMatches(s, setting) == KeyPositions(s, setting) # {}

\* re.search(r'\s*%s\s*:\s*(.*)' % setting, s): whether it matches, and
\* groups()[0] with the position where the group starts.  The leftmost match
\* is the one of the first occurrence of the setting followed by a colon.
ReSearch(s, setting) ==
    IF ~ReMatches(s, setting)
    THEN [matched |-> FALSE, start |-> 0, group |-> <<>>]
    ELSE LET j == CHOOSE x \in KeyPositions(s, setting) :
                      \A y \in KeyPositions(s, setting) : x <= y
             c == SkipSpace(s, j + Len(setting))
             p == SkipSpace(s, c + 1)
             q == EndOfLine(s, p)
         IN  [matched |-> TRUE, start |-> p, group |-> SubSeq(s, p, q - 1)]

\* re.sub(pattern, repl, s) from position i, for a pattern and a replacement
\* without special characters: every non-overlapping occurrence, leftmost
\* first; an empty pattern matches before every character and at the end.
RECURSIVE ReSubFrom(_, _, _, _)
ReSubFrom(pattern, repl, s, i) ==
    IF i > Len(s)
    THEN IF pattern = <<>> THEN repl ELSE <<>>
    ELSE IF pattern = <<>>
    THEN repl \o <<s[i]>> \o ReSubFrom(pattern, repl, s, i + 1)
    ELSE IF HasAt(s, i, pattern)
    THEN repl \o ReSubFrom(pattern, repl, s, i + Len(pattern))
    ELSE <<s[i]>> \o ReSubFrom(pattern, repl, s, i + 1)

ReSub(pattern, repl, s) == ReSubFrom(pattern, repl, s, 1)

\* str.splitlines(): a final line break ends the last line, it starts no new one
RECURSIVE SplitLines(_)
SplitLines(s) ==
    IF s = <<>> THEN <<>>
    ELSE LET e == EndOfLine(s, 1)
         IN  <<SubSeq(s, 1, e - 1)>> \o SplitLines(SubSeq(s, e + 1, Len(s)))

\* os.linesep.join(lines)
RECURSIVE JoinLines(_)
JoinLines(lines) ==
    IF lines = <<>> THEN <<>>
    ELSE IF Len(lines) = 1 THEN lines[1]
    ELSE lines[1] \o <<NL>> \o JoinLines(Tail(lines))


-----------------------------------------------------------------------------
(* The conf/ tree *)

\* Sub-directories that may exist below conf/ and below one another
Dirs == {"import", "x", "y"}
\* The file names callers ask for
Names == {"f", "g"}
\* The paths, relative to conf/, where a file may be
Paths ==
    { <<"f">>, <<"x", "f">>, <<"import", "f">>, <<"import", "x", "f">>,
      <<"import", "y", "f">>, <<"g">> }

\* The orders in which a directory listing may return the sub-directories
ScanOrders ==
    {o \in [1..Cardinality(Dirs) -> Dirs] : \A d \in Dirs : \E i \in DOMAIN o : o[i] = d}

IsPrefix(d, p) == Len(d) <= Len(p) /\ SubSeq(p, 1, Len(d)) = d

\* path lies below conf/import/
IsImport(p) == IsPrefix(<<"import">>, p)

\* os.path.basename
Basename(p) == p[Len(p)]

\* dir is a directory of the tree: some file lies below it
IsDir(files, dir) == \E p \in DOMAIN files : Len(dir) < Len(p) /\ IsPrefix(dir, p)

\* glob.glob(os.path.join(dir, '**', name), recursive=True): the file in dir
\* itself first, then those of each sub-directory, depth first, in the order
\* of the directory listing.
RECURSIVE GlobRec(_, _, _, _)
RECURSIVE GlobSubs(_, _, _, _, _)
GlobRec(files, order, dir, name) ==
    (IF Append(dir, name) \in DOMAIN files THEN <<Append(dir, name)>> ELSE <<>>)
        \o GlobSubs(files, order, dir, name, 1)
GlobSubs(files, order, dir, name, i) ==
    IF i > Len(order) THEN <<>>
    ELSE (IF IsDir(files, Append(dir, order[i]))
          THEN GlobRec(files, order, Append(dir, order[i]), name)
          ELSE <<>>)
         \o GlobSubs(files, order, dir, name, i + 1)

InSeq(x, s) == \E i \in DOMAIN s : s[i] = x

\* MatchingFiles with the two searches in the other order
MatchingFilesDefaultsFirst(files, order, name) ==
    LET defaults == GlobRec(files, order, <<>>, name)
        overrides == GlobRec(files, order, <<"import">>, name)
        IsNew(p) == ~InSeq(p, defaults)
    IN  defaults \o SelectSeq(overrides, IsNew)

\* _find_config_files without its raise: the conf/import/ matches, then the
\* conf/ matches that are not among them
MatchingFiles(files, order, name) ==
    LET matching_files == GlobRec(files, order, <<"import">>, name)
        defaults == GlobRec(files, order, <<>>, name)
        IsNew(p) == ~InSeq(p, matching_files)
    IN  matching_files \o SelectSeq(defaults, IsNew)

\* FullPath taking the last candidate
FullPathLast(found) == found[Len(found)]

\* self._find_config_files(file_name)[0]: the file set rewrites
FullPath(found) == found[1]

-----------------------------------------------------------------------------
(* get and set on texts *)

\* matches.groups()[0].startswith('"')
StartsWithQuote(s) == s # <<>> /\ s[1] = QUOTE

\* Quoted without the quotes
QuotedBare(value) == value

\* '"%s"' % value
Quoted(value) == <<QUOTE>> \o value \o <<QUOTE>>

\* The file-by-file loop of get from candidate i on: what the call does at the
\* first file decides.  A file without a match makes matches None, and
\* matches.groups() raises AttributeError.
RECURSIVE GetFrom(_, _, _, _)
GetFrom(files, found, setting, i) ==
    IF i > Len(found)
    THEN [outcome |-> "None", ret |-> <<>>]
    ELSE LET matches == ReSearch(files[found[i]], setting)
             groups == IF matches.matched THEN <<matches.group>> ELSE <<>>
         IN  IF ~matches.matched
             THEN [outcome |-> "AttributeError", ret |-> <<>>]
             ELSE IF Len(groups) >= 1
             THEN [outcome |-> "value", ret |-> groups[1]]
             ELSE GetFrom(files, found, setting, i + 1)

\* The for loop of set over config_lines from line i on; value is the loop's
\* variable of that name, which a quoted line re-assigns.
RECURSIVE SetLinesFrom(_, _, _, _)
SetLinesFrom(config_lines, setting, value, i) ==
    IF i > Len(config_lines) THEN <<>>
    ELSE LET line == config_lines[i]
             matches == ReSearch(line, setting)
             new_value == IF matches.matched /\ StartsWithQuote(matches.group)
                          THEN Quoted(value) ELSE value
             new_line == IF matches.matched
                         THEN ReSub(matches.group, new_value, line)
                         ELSE line
         IN  <<new_line>> \o SetLinesFrom(config_lines, setting, new_value, i + 1)

\* What set writes for a file that holds config
SetText(config, setting, value) ==
    LET config_lines == SplitLines(config)
        out_lines == IF ~ReMatches(config, setting)
                     THEN Append(config_lines, setting \o <<":", " ">> \o value)
                     ELSE SetLinesFrom(config_lines, setting, value, 1)
    IN  JoinLines(out_lines)

-----------------------------------------------------------------------------
(* The inputs *)

\* The settings callers read and write
Settings == { <<"k">> }
\* The values callers write
Values == { <<"a">>, <<"b">> }

\* File contents of specification Spec: a file with the setting k and a file
\* without it
Pool ==
    { <<"k", ":", " ", "a", NL>>,
      <<"b", ":", " ", "a", NL>> }

\* Lines of the initial file of specification SpecText
LinePool ==
    { <<>>,                                   \* a blank line
      <<"b">>,                                \* a line without colon
      <<"b", ":", " ", "a">>,                 \* another setting
      <<"k">>,                                \* the setting without its colon
      <<":", " ", "a">>,                      \* a colon without its setting
      <<"k", ":", " ", "a">>,                 \* an unquoted value
      <<"k", ":", " ", QUOTE, "a", QUOTE>>,   \* a quoted value
      <<"k", ":", " ">>,                      \* an empty value
      <<"k", ":", " ", "k">>,                 \* the value is the setting's name
      <<" ", "k", " ", ":", "a", " ">>,       \* spaces around the setting
      <<"a", "k", ":", " ", "b">> }           \* a setting that ends with k

\* Texts of at most n lines of LinePool, each line ended by a line break
RECURSIVE TextsUpTo(_)
TextsUpTo(n) ==
    IF n = 0 THEN { <<>> }
    ELSE LET shorter == TextsUpTo(n - 1)
         IN  shorter \cup {t \o l \o <<NL>> : t \in shorter, l \in LinePool}

\* The initial files of SpecText: with and without the final line break
InitialTexts ==
    TextsUpTo(MaxLines)
        \cup {SubSeq(t, 1, Len(t) - 1) : t \in TextsUpTo(MaxLines) \ { <<>> }}

NoCall ==
    [op |-> "none", name |-> "", setting |-> <<>>, value |-> <<>>,
     outcome |-> "none", ret |-> <<>>, found |-> <<>>, again |-> FALSE]

-----------------------------------------------------------------------------
(* The calls *)

\* HerculesConfig.get(name, setting)
Get(name, setting) ==
    LET found == MatchingFiles(fs, scan, name)
        res == IF found = <<>>
               THEN [outcome |-> "IOError", ret |-> <<>>]
               ELSE GetFrom(fs, found, setting, 1)
    IN  /\ last' = [op |-> "get", name |-> name, setting |-> setting,
                    value |-> <<>>, outcome |-> res.outcome, ret |-> res.ret,
                    found |-> found, again |-> FALSE]
        /\ prev' = fs
        /\ UNCHANGED <<fs, scan>>
        /\ UNCHANGED <<procvars, sqlvars>>

\* set that creates conf/<name> when no file matches
SetCreating(name, setting, value) ==
    LET found == MatchingFiles(fs, scan, name)
        full_path == IF found = <<>> THEN <<name>> ELSE FullPath(found)
        config == IF found = <<>> THEN <<>> ELSE fs[full_path]
        out == SetText(config, setting, value)
    IN  /\ Len(out) <= MaxText
        /\ fs' = [p \in DOMAIN fs \cup {full_path} |->
                     IF p = full_path THEN out ELSE fs[p]]
        /\ last' = [op |-> "set", name |-> name, setting |-> setting,
                    value |-> value, outcome |-> "done", ret |-> <<>>,
                    found |-> found,
                    again |-> /\ last.op = "set" /\ last.name = name
                              /\ last.setting = setting /\ last.value = value]
        /\ prev' = fs
        /\ UNCHANGED scan
        /\ UNCHANGED <<procvars, sqlvars>>

\* HerculesConfig.set(name, setting, value)
Set(name, setting, value) ==
    LET found == MatchingFiles(fs, scan, name)
        again == /\ last.op = "set" /\ last.name = name
                 /\ last.setting = setting /\ last.value = value
    IN  IF found = <<>>
        THEN /\ last' = [op |-> "set", name |-> name, setting |-> setting,
                         value |-> value, outcome |-> "IOError", ret |-> <<>>,
                         found |-> found, again |-> again]
             /\ prev' = fs
             /\ UNCHANGED <<fs, scan>>
             /\ UNCHANGED <<procvars, sqlvars>>
        ELSE LET full_path == FullPath(found)
                 out == SetText(fs[full_path], setting, value)
             IN  /\ Len(out) <= MaxText
                 /\ fs' = [fs EXCEPT ![full_path] = out]
                 /\ last' = [op |-> "set", name |-> name, setting |-> setting,
                             value |-> value, outcome |-> "done", ret |-> <<>>,
                             found |-> found, again |-> again]
                 /\ prev' = fs
                 /\ UNCHANGED scan
                 /\ UNCHANGED <<procvars, sqlvars>>

-----------------------------------------------------------------------------
(* The server processes *)

\* self.servers
Servers == <<"map-server", "char-server", "login-server">>
ServerSet == {Servers[i] : i \in DOMAIN Servers}

\* The pids of the model
Pids == 1..MaxPid

\* A process name is the executable's name and what follows it
ServerName(server) == <<server, "">>
ProcNames == {ServerName(server) : server \in ServerSet} \cup { <<"bash", "">> }

\* proc.wait(timeout=10), in seconds
WaitTimeout == 10

\* Seconds a process takes to exit once asked to terminate
Delays == {WaitTimeout - 1, WaitTimeout + 1}

\* The delays that tell calls apart: a call that terminates no process waits
\* for none
DelaysOf(signals) ==
    IF signals = <<>> THEN {WaitTimeout - 1} ELSE Delays

\* StartsWith that takes every process for the server's
StartsWithAny(name, server) == TRUE

\* proc.name().startswith(server)
StartsWith(name, server) == name[1] = server

\* psutil.pid_exists(pid)
PidExists(table, pid) == pid \in DOMAIN table

\* _server_pid: the pid stored in <server>.pid, None (here <<>>) without file
ServerPid(pf, server) == IF server \in DOMAIN pf THEN <<pf[server]>> ELSE <<>>

\* The loop of _get_status over psutil.process_iter(), which lists the
\* processes by ascending pid, from pid on
RECURSIVE MatchingProcesses(_, _, _)
MatchingProcesses(table, server, pid) ==
    IF pid > MaxPid THEN <<>>
    ELSE (IF PidExists(table, pid) /\ StartsWith(table[pid], server)
          THEN <<pid>> ELSE <<>>)
         \o MatchingProcesses(table, server, pid + 1)

\* _get_status: the status and the pids returned with it: the expected pid,
\* the matching pid, the list of the matching pids (several), or None (none)
GetStatusOf(table, pf, server) ==
    LET expected_pid == ServerPid(pf, server)
    IN  IF expected_pid # <<>>
        THEN IF PidExists(table, expected_pid[1])
             THEN IF StartsWith(table[expected_pid[1]], server)
                  THEN [status |-> "running", pids |-> expected_pid]
                  ELSE [status |-> "missing", pids |-> expected_pid]
             ELSE [status |-> "missing", pids |-> expected_pid]
        ELSE IF expected_pid = <<>>
        THEN LET matching_processes == MatchingProcesses(table, server, 1)
             IN  IF Len(matching_processes) > 1
                 THEN [status |-> "orphaned", pids |-> matching_processes]
                 ELSE IF Len(matching_processes) = 1
                 THEN [status |-> "orphaned", pids |-> matching_processes]
                 ELSE [status |-> "stopped", pids |-> <<>>]
        ELSE [status |-> "AssertionError", pids |-> <<>>]

\* The table without the process pid / the pid files without the server's
Without(f, x) == [y \in DOMAIN f \ {x} |-> f[y]]

\* proc.wait(timeout=10) raises TimeoutExpired
TimedOut(delay) == delay >= WaitTimeout

\* _kill_server for a process that takes delay seconds to exit on terminate:
\* the process table and pid files it leaves, the signals it sent in order,
\* and how it ended.  psutil.Process(server_pid) raises TypeError when
\* _get_status returned the list of several pids.
KillServerEffect(table, pf, server, delay) ==
    LET st == GetStatusOf(table, pf, server)
    IN  IF st.status \in {"orphaned", "running"}
        THEN IF Len(st.pids) > 1
             THEN [procs |-> table, pidfile |-> pf, signals |-> <<>>,
                   outcome |-> "TypeError"]
             ELSE LET server_pid == st.pids[1]
                  IN  [procs |-> Without(table, server_pid),
                       pidfile |-> Without(pf, server),
                       signals |-> IF TimedOut(delay)
                                   THEN << <<"terminate", server_pid>>,
                                           <<"kill", server_pid>> >>
                                   ELSE << <<"terminate", server_pid>> >>,
                       outcome |-> "returned"]
        ELSE [procs |-> table, pidfile |-> Without(pf, server),
              signals |-> <<>>, outcome |-> "returned"]

\* SkipsLaunch with the force flag read the wrong way round
SkipsLaunchForced(status, force) == status = "running" /\ force

\* _run_executable: current_status == 'running' and not force
SkipsLaunch(status, force) == status = "running" /\ ~force

\* WritePidFile that writes nothing
WritePidFileNot(pf, server, pid) == pf

\* print(proc.pid, file=pidfile) into <server>.pid
WritePidFile(pf, server, pid) ==
    [s \in DOMAIN pf \cup {server} |-> IF s = server THEN pid ELSE pf[s]]

\* _run_executable; the launched process gets the free pid new_pid, and
\* found says whether psutil.pid_exists finds it
RunExecutableEffect(table, pf, server, force, delay, new_pid, found) ==
    LET st == GetStatusOf(table, pf, server)
        cleaned ==
            IF st.status = "orphaned" \/ (st.status = "running" /\ force)
            THEN KillServerEffect(table, pf, server, delay)
            ELSE IF st.status = "missing"
            THEN [procs |-> table, pidfile |-> Without(pf, server),
                  signals |-> <<>>, outcome |-> "returned"]
            ELSE [procs |-> table, pidfile |-> pf, signals |-> <<>>,
                  outcome |-> "returned"]
    IN  IF SkipsLaunch(st.status, force)
        THEN [procs |-> table, pidfile |-> pf, signals |-> <<>>,
              outcome |-> "returned", launched |-> 0]
        ELSE IF cleaned.outcome # "returned"
        THEN [procs |-> cleaned.procs, pidfile |-> cleaned.pidfile,
              signals |-> cleaned.signals, outcome |-> cleaned.outcome,
              launched |-> 0]
        ELSE IF found
        THEN [procs |-> [q \in DOMAIN cleaned.procs \cup {new_pid} |->
                            IF q = new_pid THEN ServerName(server)
                            ELSE cleaned.procs[q]],
              pidfile |-> WritePidFile(cleaned.pidfile, server, new_pid),
              signals |-> cleaned.signals, outcome |-> "started",
              launched |-> new_pid]
        ELSE [procs |-> cleaned.procs, pidfile |-> cleaned.pidfile,
              signals |-> cleaned.signals, outcome |-> "OSError",
              launched |-> new_pid]

\* The pids the system may give a process launched after the clean-up
FreePids(table, pf, server, force, delay) ==
    Pids \ DOMAIN RunExecutableEffect(table, pf, server, force, delay, 0, FALSE).procs

NoRun ==
    [op |-> "none", server |-> "", force |-> FALSE, delay |-> 0,
     status |-> [status |-> "none", pids |-> <<>>],
     procs |-> <<>>, pidfile |-> <<>>,
     signals |-> <<>>, outcome |-> "none", launched |-> 0]

\* Autolycus._get_status(server)
GetStatus(server) ==
    /\ run' = [op |-> "status", server |-> server, force |-> FALSE,
               delay |-> 0,
               status |-> GetStatusOf(procs, pidfile, server),
               procs |-> procs, pidfile |-> pidfile, signals |-> <<>>,
               outcome |-> IF GetStatusOf(procs, pidfile, server).status
                                 = "AssertionError"
                           THEN "AssertionError" ELSE "returned",
               launched |-> 0]
    /\ UNCHANGED <<procs, pidfile>>
    /\ UNCHANGED <<confvars, sqlvars>>

\* Autolycus._kill_server(server)
KillServer(server, delay) ==
    LET res == KillServerEffect(procs, pidfile, server, delay)
    IN  /\ delay \in DelaysOf(res.signals)
        /\ procs' = res.procs
        /\ pidfile' = res.pidfile
        /\ run' = [op |-> "kill", server |-> server, force |-> FALSE,
                   delay |-> delay,
                   status |-> GetStatusOf(procs, pidfile, server),
                   procs |-> procs, pidfile |-> pidfile,
                   signals |-> res.signals, outcome |-> res.outcome,
                   launched |-> 0]
        /\ UNCHANGED <<confvars, sqlvars>>

\* Autolycus._run_executable(server, force)
RunExecutable(server, force, delay, new_pid, found) ==
    LET res == RunExecutableEffect(procs, pidfile, server, force, delay,
                                   new_pid, found)
    IN  /\ delay \in DelaysOf(res.signals)
        /\ new_pid \in FreePids(procs, pidfile, server, force, delay)
        /\ procs' = res.procs
        /\ pidfile' = res.pidfile
        /\ run' = [op |-> "run", server |-> server, force |-> force,
                   delay |-> delay,
                   status |-> GetStatusOf(procs, pidfile, server),
                   procs |-> procs, pidfile |-> pidfile,
                   signals |-> res.signals, outcome |-> res.outcome,
                   launched |-> res.launched]
        /\ UNCHANGED <<confvars, sqlvars>>

NextProc ==
    \/ \E server \in ServerSet : GetStatus(server)
    \/ \E server \in ServerSet, delay \in Delays : KillServer(server, delay)
    \/ \E server \in ServerSet, force \in BOOLEAN, delay \in Delays,
          new_pid \in Pids, found \in BOOLEAN :
          RunExecutable(server, force, delay, new_pid, found)

\* Any process table, any pid files
InitProc ==
    /\ \E S \in SUBSET Pids : procs \in [S -> ProcNames]
    /\ \E T \in SUBSET ServerSet : pidfile \in [T -> Pids]
    /\ run = NoRun
    /\ fs = <<>> /\ scan = <<"import", "x", "y">> /\ prev = <<>>
    /\ last = NoCall
    /\ sqlfiles = <<>> /\ build_date = "unknown" /\ sql = NoSql

SpecProc == InitProc /\ [][NextProc]_vars

-----------------------------------------------------------------------------
(* stop and start *)

\* The loop of stop from the i-th server on: _kill_server for each server in
\* the order of self.servers; an exception ends the loop.  waited holds the
\* servers whose process was asked to terminate.
\* What stop did, from what it did for one server and for the later ones
StopAfter(signals, here, rest) ==
    [procs |-> rest.procs, pidfile |-> rest.pidfile,
     signals |-> signals \o rest.signals, outcome |-> rest.outcome,
     waited |-> here \cup rest.waited]

RECURSIVE StopFrom(_, _, _, _)
StopFrom(i, table, pf, delays) ==
    IF i > Len(Servers)
    THEN [procs |-> table, pidfile |-> pf, signals |-> <<>>,
          outcome |-> "returned", waited |-> {}]
    ELSE LET killed == KillServerEffect(table, pf, Servers[i], delays[i])
             here == IF killed.signals # <<>> THEN {i} ELSE {}
         IN  IF killed.outcome # "returned"
             THEN [procs |-> killed.procs, pidfile |-> killed.pidfile,
                   signals |-> killed.signals, outcome |-> killed.outcome,
                   waited |-> here]
             ELSE StopAfter(killed.signals, here,
                            StopFrom(i + 1, killed.procs, killed.pidfile,
                                     delays))

\* Autolycus.stop(); delays[i] is the time the process of the i-th server
\* takes to exit once asked to terminate
Stop(delays) ==
    LET res == StopFrom(1, procs, pidfile, delays)
    IN  /\ \A i \in DOMAIN Servers : delays[i] \in DelaysOf(IF i \in res.waited THEN <<i>> ELSE <<>>)
        /\ procs' = res.procs
        /\ pidfile' = res.pidfile
        /\ run' = [op |-> "stop", server |-> "", force |-> FALSE,
                   delay |-> 0,
                   status |-> [status |-> "none", pids |-> <<>>],
                   procs |-> procs, pidfile |-> pidfile,
                   signals |-> res.signals, outcome |-> res.outcome,
                   launched |-> 0, started |-> <<>>]
        /\ UNCHANGED <<confvars, sqlvars>>

\* Autolycus.info(): its first statement formats an f-string that reads the
\* names arch and git_version, which are bound nowhere (the keys of
\* version_info are not names): NameError, before any status is logged
InfoOutcome == "NameError"

\* The loop of start from the i-th server on: _run_executable(server) without
\* force for each server in the order of self.servers; any exception is
\* raised again as OSError and ends the loop.  started lists the servers for
\* which a process was launched; fresh says that every launched process got
\* a pid that was free when it was launched.
\* What start did, from what it did for one server and for the later ones
StartAfter(signals, here, fresh, rest) ==
    [procs |-> rest.procs, pidfile |-> rest.pidfile,
     signals |-> signals \o rest.signals, outcome |-> rest.outcome,
     started |-> here \o rest.started, fresh |-> fresh /\ rest.fresh]

RECURSIVE StartFrom(_, _, _, _, _, _)

\* One turn of the loop of start: ran is what _run_executable did for the
\* i-th server, free the pids that were free for its launch
StartStep(i, ran, free, delays, new_pids, founds) ==
    IF ran.outcome \notin {"returned", "started"}
    THEN [procs |-> ran.procs, pidfile |-> ran.pidfile,
          signals |-> ran.signals, outcome |-> "OSError",
          started |-> IF ran.launched # 0 THEN <<Servers[i]>> ELSE <<>>,
          fresh |-> ran.launched = 0 \/ new_pids[i] \in free]
    ELSE StartAfter(ran.signals,
                    IF ran.launched # 0 THEN <<Servers[i]>> ELSE <<>>,
                    ran.launched = 0 \/ new_pids[i] \in free,
                    StartFrom(i + 1, ran.procs, ran.pidfile, delays,
                              new_pids, founds))

StartFrom(i, table, pf, delays, new_pids, founds) ==
    IF i > Len(Servers)
    THEN [procs |-> table, pidfile |-> pf, signals |-> <<>>,
          outcome |-> "returned", started |-> <<>>, fresh |-> TRUE]
    ELSE StartStep(i,
                   RunExecutableEffect(table, pf, Servers[i], FALSE,
                                       delays[i], new_pids[i], founds[i]),
                   FreePids(table, pf, Servers[i], FALSE, delays[i]),
                   delays, new_pids, founds)

\* Autolycus.start(): info(), then the loop
Start ==
    /\ IF InfoOutcome = "returned"
       THEN \E delays \in [DOMAIN Servers -> Delays],
               new_pids \in [DOMAIN Servers -> Pids],
               founds \in [DOMAIN Servers -> BOOLEAN] :
               LET res == StartFrom(1, procs, pidfile, delays, new_pids,
                                    founds)
               IN  /\ res.fresh
                   /\ procs' = res.procs
                   /\ pidfile' = res.pidfile
                   /\ run' = [op |-> "start", server |-> "",
                              force |-> FALSE, delay |-> 0,
                              status |-> [status |-> "none", pids |-> <<>>],
                              procs |-> procs, pidfile |-> pidfile,
                              signals |-> res.signals,
                              outcome |-> res.outcome,
                              launched |-> 0, started |-> res.started]
       ELSE /\ UNCHANGED <<procs, pidfile>>
            /\ run' = [op |-> "start", server |-> "", force |-> FALSE,
                       delay |-> 0,
                       status |-> [status |-> "none", pids |-> <<>>],
                       procs |-> procs, pidfile |-> pidfile,
                       signals |-> <<>>, outcome |-> InfoOutcome,
                       launched |-> 0, started |-> <<>>]
    /\ UNCHANGED <<confvars, sqlvars>>

NextCtl ==
    \/ \E delays \in [DOMAIN Servers -> Delays] : Stop(delays)
    \/ Start

SpecCtl == InitProc /\ [][NextCtl]_vars

-----------------------------------------------------------------------------
(* The database *)

\* _database_status()['ok'] of one poll
DbResults == {TRUE, FALSE}

\* _database_status for a poll that finds the database up or not.  Without
\* the db_* settings in sql_connection.conf, config.get fails in
\* _database_config, before the try of _database_status.
DatabaseStatus(configured, up) ==
    IF ~configured THEN "AttributeError"
    ELSE IF up THEN "ok" ELSE "down"

\* The loop of _wait_for_database after n polls, timeout being what is left;
\* results[n + 1] is what the next poll finds.  The message of the IOError
\* is formatted from status, which no statement has bound when the loop
\* made no poll.
RECURSIVE WaitFrom(_, _, _, _)
WaitFrom(timeout, configured, results, n) ==
    IF timeout > 0
    THEN LET status == DatabaseStatus(configured, results[n + 1])
         IN  IF status = "AttributeError"
             THEN [outcome |-> "AttributeError", polls |-> n + 1]
             ELSE IF status = "ok"
             THEN [outcome |-> "True", polls |-> n + 1]
             ELSE WaitFrom(timeout - 1, configured, results, n + 1)
    ELSE IF n = 0
    THEN [outcome |-> "UnboundLocalError", polls |-> 0]
    ELSE [outcome |-> "IOError", polls |-> n]

\* The inputs that tell calls apart: what the database is like matters for
\* the polls that are made only
PollsOf(polls, configured, results) ==
    /\ polls = 0 => configured
    /\ \A i \in DOMAIN results : i > polls => ~results[i]

\* Autolycus._wait_for_database(timeout)
WaitForDatabase(timeout, configured, results) ==
    LET res == WaitFrom(timeout, configured, results, 0)
    IN  /\ PollsOf(res.polls, configured, results)
        /\ sql' = [op |-> "wait", timeout |-> timeout, force |-> FALSE,
                   file |-> "", outcome |-> res.outcome,
                   polls |-> res.polls,
                   seen |-> [i \in 1..res.polls |->
                                DatabaseStatus(configured, results[i])],
                   imported |-> <<>>, executed |-> <<>>, errors |-> {}]
        /\ UNCHANGED <<sqlfiles, build_date>>
        /\ UNCHANGED <<confvars, procvars>>

-----------------------------------------------------------------------------
(* import_sql *)

\* line.strip(); a line is kept without the line break that ends it, which
\* strip() removes as well
RECURSIVE Strip(_)
Strip(line) ==
    IF line = <<>> THEN <<>>
    ELSE IF IsSpace(line[1]) THEN Strip(Tail(line))
    ELSE IF IsSpace(line[Len(line)])
    THEN Strip(SubSeq(line, 1, Len(line) - 1))
    ELSE line

\* IsComment that takes no line for a comment
IsCommentNever(line) == FALSE

\* line.startswith('--') or line.startswith('#')
IsComment(line) == HasAt(line, 1, <<"-", "-">>) \/ HasAt(line, 1, <<"#">>)

\* The test that makes the loop skip the line
Skipped(line) == IsComment(line) \/ Strip(line) = <<>>

\* line.strip().endswith(';')
EndsStatement(line) ==
    Strip(line) # <<>> /\ Strip(line)[Len(Strip(line))] = ";"

\* The loop of import_sql from the i-th line on, query being what was
\* accumulated: the queries passed to db.query, in order.  What is left in
\* query after the last line is not executed.
RECURSIVE ImportFrom(_, _, _)
ImportFrom(lines, i, query) ==
    IF i > Len(lines) THEN <<>>
    ELSE IF Skipped(lines[i]) THEN ImportFrom(lines, i + 1, query)
    ELSE IF EndsStatement(lines[i])
    THEN <<query \o Strip(lines[i]) \o <<" ">> >>
             \o ImportFrom(lines, i + 1, <<>>)
    ELSE ImportFrom(lines, i + 1, query \o Strip(lines[i]) \o <<" ">>)

\* import_sql(file_name): how it ends and the queries it executed; failing
\* holds the numbers of the queries for which db.query raises, which are
\* logged
ImportSqlEffect(files, file_name, configured, up, failing) ==
    LET status == DatabaseStatus(configured, up)
        queries == ImportFrom(files[file_name], 1, <<>>)
    IN  IF status = "AttributeError"
        THEN [outcome |-> "AttributeError", executed |-> <<>>, errors |-> {}]
        ELSE IF status # "ok"
        THEN [outcome |-> "IOError", executed |-> <<>>, errors |-> {}]
        ELSE IF file_name \notin DOMAIN files
        THEN [outcome |-> "FileNotFoundError", executed |-> <<>>,
              errors |-> {}]
        ELSE [outcome |-> "returned", executed |-> queries,
              errors |-> failing \cap DOMAIN queries]

\* The failing queries that tell calls apart: those that were executed
FailingOf(res, failing) == failing = res.errors

\* Autolycus.import_sql(file_name)
ImportSql(file_name, configured, up, failing) ==
    LET res == ImportSqlEffect(sqlfiles, file_name, configured, up, failing)
    IN  /\ FailingOf(res, failing)
        /\ sql' = [op |-> "import", timeout |-> 0, force |-> FALSE,
                   file |-> file_name, outcome |-> res.outcome,
                   polls |-> 1,
                   seen |-> <<DatabaseStatus(configured, up)>>,
                   imported |-> IF res.outcome = "returned"
                                THEN <<file_name>> ELSE <<>>,
                   executed |-> res.executed, errors |-> res.errors]
        /\ UNCHANGED <<sqlfiles, build_date>>
        /\ UNCHANGED <<confvars, procvars>>

-----------------------------------------------------------------------------
(* sql_upgrades *)

\* An SQL file name is <<directory below sql-files/, stem, extension>>.
\* The stems of the model, in the ascending order sorted() gives them
\* (the order of their characters: "0" < "1" < "r")
Stems ==
    <<"2019-01-01--00-00", "2019-01-02--00-00", "2019-01-03--00-00",
      "2019-1-1--12-0", "readme">>

\* The files of the model: four upgrades, a text file beside them, and a
\* file outside sql-files/upgrades
SqlNames ==
    { <<"upgrades", "2019-01-01--00-00", ".sql">>,
      <<"upgrades", "2019-01-02--00-00", ".sql">>,
      <<"upgrades", "2019-01-03--00-00", ".txt">>,
      <<"upgrades", "2019-1-1--12-0", ".sql">>,
      <<"upgrades", "readme", ".sql">>,
      <<"", "main", ".sql">> }

\* dateparser.parse found no date
NoDate == 0

\* dateparser.parse(stem, date_formats=['%Y-%m-%d--%H-%M']); a date is the
\* number of half days since 2018-12-31 12:00
UpgradeDate(stem) ==
    CASE stem = "2019-01-01--00-00" -> 1
      [] stem = "2019-1-1--12-0" -> 2
      [] stem = "2019-01-02--00-00" -> 3
      [] stem = "2019-01-03--00-00" -> 5
      [] OTHER -> NoDate

\* The values of version_info['build_date']: none read, two dates in the
\* format of the build, and an entry without a date
BuildDates ==
    {"unknown", "2019-01-01_00-00-00", "2019-01-01_12-00-00", ""}

\* dateparser.parse(build_date, date_formats=['%Y-%m-%d_%H-%M-%S'])
BuildDate(text) ==
    CASE text = "2019-01-01_00-00-00" -> 1
      [] text = "2019-01-01_12-00-00" -> 2
      [] OTHER -> NoDate

\* sorted(glob.glob('sql-files/upgrades/*.sql')) from the i-th stem on
RECURSIVE UpgradeFilesFrom(_, _)
UpgradeFilesFrom(files, i) ==
    IF i > Len(Stems) THEN <<>>
    ELSE (IF <<"upgrades", Stems[i], ".sql">> \in DOMAIN files
          THEN << <<"upgrades", Stems[i], ".sql">> >> ELSE <<>>)
         \o UpgradeFilesFrom(files, i + 1)

\* Later that takes a file of the build's date too
LaterOrSame(upgrade_date, date) == upgrade_date >= date

\* upgrade_date > build_date
Later(upgrade_date, date) == upgrade_date > date

\* Refuses that never refuses
RefusesNever(text, force) == FALSE

\* sql_upgrades: build_date == 'unknown' and not force
Refuses(text, force) == text = "unknown" /\ ~force

\* What sql_upgrades did, from the import of one file and the later files
UpgradesAfter(file_name, done, rest) ==
    [outcome |-> rest.outcome,
     imported |-> <<file_name>> \o rest.imported,
     executed |-> done.executed \o rest.executed,
     seen |-> <<"ok">> \o rest.seen]

\* The loop of sql_upgrades from the i-th file on, after n calls of
\* import_sql; ups[n + 1] says whether the database is up at the next one.
\* A build date that did not parse is None, and comparing a date with it
\* raises TypeError.
RECURSIVE UpgradesFrom(_, _, _, _, _, _, _)
UpgradesFrom(files, upgrade_files, i, n, date, configured, ups) ==
    IF i > Len(upgrade_files)
    THEN [outcome |-> "returned", imported |-> <<>>, executed |-> <<>>,
          seen |-> <<>>]
    ELSE IF UpgradeDate(upgrade_files[i][2]) = NoDate
    THEN UpgradesFrom(files, upgrade_files, i + 1, n, date, configured, ups)
    ELSE IF date = NoDate
    THEN [outcome |-> "TypeError", imported |-> <<>>, executed |-> <<>>,
          seen |-> <<>>]
    ELSE IF Later(UpgradeDate(upgrade_files[i][2]), date)
    THEN IF ImportSqlEffect(files, upgrade_files[i], configured,
                            ups[n + 1], {}).outcome # "returned"
         THEN [outcome |-> ImportSqlEffect(files, upgrade_files[i],
                                           configured, ups[n + 1],
                                           {}).outcome,
               imported |-> <<>>, executed |-> <<>>,
               seen |-> <<DatabaseStatus(configured, ups[n + 1])>>]
         ELSE UpgradesAfter(upgrade_files[i],
                            ImportSqlEffect(files, upgrade_files[i],
                                            configured, ups[n + 1], {}),
                            UpgradesFrom(files, upgrade_files, i + 1, n + 1,
                                         date, configured, ups))
    ELSE UpgradesFrom(files, upgrade_files, i + 1, n, date, configured, ups)

\* sql_upgrades(force).  With force and no build date the creation time of
\* the char-server executable is read, and the warning after it is logged
\* through the name test, which is bound nowhere: NameError.
SqlUpgradesEffect(files, text, force, configured, ups) ==
    IF Refuses(text, force)
    THEN [outcome |-> "KeyError", imported |-> <<>>, executed |-> <<>>,
          seen |-> <<>>]
    ELSE IF text = "unknown"
    THEN [outcome |-> "NameError", imported |-> <<>>, executed |-> <<>>,
          seen |-> <<>>]
    ELSE UpgradesFrom(files, UpgradeFilesFrom(files, 1), 1, 0,
                      BuildDate(text), configured, ups)

\* Autolycus.sql_upgrades(force)
SqlUpgrades(force, configured, ups) ==
    LET res == SqlUpgradesEffect(sqlfiles, build_date, force, configured,
                                 ups)
    IN  /\ PollsOf(Len(res.seen), configured, ups)
        /\ sql' = [op |-> "upgrades", timeout |-> 0, force |-> force,
                   file |-> "", outcome |-> res.outcome,
                   polls |-> Len(res.seen), seen |-> res.seen,
                   imported |-> res.imported, executed |-> res.executed,
                   errors |-> {}]
        /\ UNCHANGED <<sqlfiles, build_date>>
        /\ UNCHANGED <<confvars, procvars>>

-----------------------------------------------------------------------------
(* The SQL side: inputs and specifications *)

\* The lines of the imported file: an empty one, the two kinds of comment
\* (ending in a semicolon), an indented comment, the start of a statement,
\* and the end of one between spaces
SqlLinePool ==
    { <<>>,
      <<"-", "-", ";">>,
      <<"#", ";">>,
      <<" ", "-", "-", ";">>,
      <<"A">>,
      <<" ", "B", ";", " ">> }

RECURSIVE SqlTextsUpTo(_)
SqlTextsUpTo(n) ==
    IF n = 0 THEN { <<>> }
    ELSE SqlTextsUpTo(n - 1)
         \cup { Append(t, l) : t \in SqlTextsUpTo(n - 1), l \in SqlLinePool }

\* The lines of every file of the upgrade directory
UpgradeLines == << <<"#", "c">>, <<"B", ";">> >>

NextSql ==
    \/ \E timeout \in 0..MaxTimeout, configured \in BOOLEAN,
          results \in [1..MaxTimeout -> DbResults] :
          WaitForDatabase(timeout, configured, results)
    \/ \E force \in BOOLEAN, configured \in BOOLEAN,
          ups \in [DOMAIN Stems -> DbResults] :
          SqlUpgrades(force, configured, ups)
    \/ \E file_name \in SqlNames, configured \in BOOLEAN, up \in DbResults,
          failing \in SUBSET (1..MaxSqlLines) :
          ImportSql(file_name, configured, up, failing)

\* Any set of the files, any build date
InitSql ==
    /\ \E S \in SUBSET SqlNames : sqlfiles = [n \in S |-> UpgradeLines]
    /\ build_date \in BuildDates
    /\ sql = NoSql
    /\ fs = <<>> /\ scan = <<"import", "x", "y">> /\ prev = <<>>
    /\ last = NoCall
    /\ procs = <<>> /\ pidfile = <<>> /\ run = NoRun

SpecSql == InitSql /\ [][NextSql]_vars

\* One file of any lines
InitImport ==
    /\ sqlfiles \in [{ <<"", "main", ".sql">> } -> SqlTextsUpTo(MaxSqlLines)]
    /\ build_date = "unknown"
    /\ sql = NoSql
    /\ fs = <<>> /\ scan = <<"import", "x", "y">> /\ prev = <<>>
    /\ last = NoCall
    /\ procs = <<>> /\ pidfile = <<>> /\ run = NoRun

SpecImport == InitImport /\ [][NextSql]_vars

Next ==
    \/ \E name \in Names, setting \in Settings : Get(name, setting)
    \/ \E name \in Names, setting \in Settings, value \in Values :
          Set(name, setting, value)

\* Any files at the paths of the tree, any order of the directory listings
Init ==
    /\ \E S \in SUBSET Paths :
          /\ Cardinality(S) <= MaxFiles
          /\ fs \in [S -> Pool]
    /\ scan \in ScanOrders
    /\ prev = fs
    /\ last = NoCall
    /\ procs = <<>> /\ pidfile = <<>> /\ run = NoRun
    /\ sqlfiles = <<>> /\ build_date = "unknown" /\ sql = NoSql

Spec == Init /\ [][Next]_vars

\* One file conf/f with any text of InitialTexts
InitText ==
    /\ fs \in [{ <<"f">> } -> InitialTexts]
    /\ scan = <<"import", "x", "y">>
    /\ prev = fs
    /\ last = NoCall
    /\ procs = <<>> /\ pidfile = <<>> /\ run = NoRun
    /\ sqlfiles = <<>> /\ build_date = "unknown" /\ sql = NoSql

SpecText == InitText /\ [][Next]_vars

-----------------------------------------------------------------------------
(* Properties.  They speak of the last call: prev is the tree the call      *)
(* found, fs the tree it left, last.found the candidates it was given.      *)

\* The files of the tree the call found that carry the requested name
Candidates == {p \in DOMAIN prev : Basename(p) = last.name}

\* The file holds a match for the setting / the value get reads from it
Contains(text, setting) == ReMatches(text, setting)
ValueIn(text, setting) == ReSearch(text, setting).group

\* The candidates of the last call that hold the setting, by their rank
Holders == {i \in DOMAIN last.found : Contains(prev[last.found[i]], last.setting)}
FirstHolder == CHOOSE i \in Holders : \A j \in Holders : i <= j

\* C1: when the requested name exists both below conf/import/ and elsewhere
\* below conf/, the candidates are all the files of that name, every
\* conf/import/ path before every other path, and the call acts on an import
\* copy: get reads its value from it, set changes no file outside import/.
C1_ImportFirst ==
    (/\ last.op \in {"get", "set"}
     /\ \E p \in Candidates : IsImport(p)
     /\ \E p \in Candidates : ~IsImport(p))
    => /\ {last.found[i] : i \in DOMAIN last.found} = Candidates
       /\ \A i, j \in DOMAIN last.found :
             (IsImport(last.found[i]) /\ ~IsImport(last.found[j])) => i < j
       /\ IsImport(last.found[1])
       /\ last.outcome = "value"
             => last.ret = ValueIn(prev[last.found[1]], last.setting)
       /\ last.op = "set"
             => \A p \in Candidates : ~IsImport(p) => fs[p] = prev[p]

\* C1 witness: a set that rewrote the import copy while another copy exists
C1_Witness ==
    /\ last.op = "set" /\ last.outcome = "done"
    /\ \E p \in Candidates : ~IsImport(p)
    /\ \E p \in Candidates : IsImport(p) /\ fs[p] # prev[p]

\* C2: when no file of the requested name exists below conf/, get and set
\* fail with IOError, and set creates no file and changes none.
C2_NotFound ==
    (last.op \in {"get", "set"} /\ Candidates = {})
    => /\ last.outcome = "IOError"
       /\ DOMAIN fs = DOMAIN prev
       /\ \A p \in DOMAIN prev : fs[p] = prev[p]

\* C2 witness: a set for a name without file, in a tree that holds other files
C2_Witness ==
    /\ last.op = "set" /\ Candidates = {}
    /\ last.outcome = "IOError"
    /\ DOMAIN fs # {}

\* C3: get returns the value of the highest-precedence candidate that holds
\* the setting, whatever the lower candidates hold.
C3_GetFirstHolder ==
    (last.op = "get" /\ Holders # {})
    => /\ last.outcome = "value"
       /\ last.ret = ValueIn(prev[last.found[FirstHolder]], last.setting)

\* C4: when candidates exist and none holds the setting, get returns None
\* and raises nothing.
C4_GetAbsent ==
    (last.op = "get" /\ last.found # <<>> /\ Holders = {})
    => last.outcome = "None"

\* C5: when the first candidate does not hold the setting and a lower one
\* does, get skips the first and returns the value of the first lower
\* candidate that holds it.
C5_GetSkips ==
    (last.op = "get" /\ Holders # {} /\ 1 \notin Holders)
    => /\ last.outcome \notin {"AttributeError", "IOError"}
       /\ last.outcome = "value"
       /\ last.ret = ValueIn(prev[last.found[FirstHolder]], last.setting)

\* C6: set writes the first candidate only: every other file of the tree,
\* holding the setting or not, is as it was, and no file appears or goes.
C6_SetOnlyFirst ==
    last.op = "set"
    => /\ DOMAIN fs = DOMAIN prev
       /\ \A p \in DOMAIN prev :
             (last.found = <<>> \/ p # last.found[1]) => fs[p] = prev[p]

\* C6 witness: a set that rewrote the first of two candidates, the second
\* holding the setting too
C6_Witness ==
    /\ last.op = "set" /\ last.outcome = "done"
    /\ Len(last.found) >= 2
    /\ 2 \in Holders
    /\ fs[last.found[1]] # prev[last.found[1]]

-----------------------------------------------------------------------------
(* Properties of the rewrite.  For a set that wrote: the lines of the file  *)
(* it read and of the file it left, as str.splitlines gives them.           *)

SetWrote == last.op = "set" /\ last.outcome = "done"

OldLines == SplitLines(prev[last.found[1]])
NewLines == SplitLines(fs[last.found[1]])

\* The lines of the file read that match the setting, by their number
MatchingLines ==
    {i \in DOMAIN OldLines : ReSearch(OldLines[i], last.setting).matched}

\* C7: for a file with at least one line that matches the setting, set leaves
\* a file of as many lines, and every line that does not match is the input
\* line of the same number.
C7_SameLines ==
    (SetWrote /\ MatchingLines # {})
    => /\ Len(NewLines) = Len(OldLines)
       /\ \A i \in DOMAIN OldLines \ MatchingLines :
             i <= Len(NewLines) /\ NewLines[i] = OldLines[i]

\* C8: for a file with no line that matches the setting, set leaves the input
\* lines, in order, followed by the one new line 'setting: value'.
C8_Appends ==
    (SetWrote /\ MatchingLines = {})
    => NewLines = Append(OldLines, last.setting \o <<":", " ">> \o last.value)

\* C9: for a file with one line that matches the setting, what set writes in
\* place of the old value is the new value in double quotes when the old
\* value starts with a double quote, and the bare new value when it does not.
C9_QuotesKept ==
    (SetWrote /\ Cardinality(MatchingLines) = 1)
    => LET i == CHOOSE n \in MatchingLines : TRUE
           old == ValueIn(OldLines[i], last.setting)
           written == IF old # <<>> /\ old[1] = QUOTE
                      THEN <<QUOTE>> \o last.value \o <<QUOTE>>
                      ELSE last.value
       IN  /\ i <= Len(NewLines)
           /\ NewLines[i] = ReSub(old, written, OldLines[i])

\* C9 witness: a set that replaced a quoted value
C9_Witness ==
    /\ SetWrote /\ Cardinality(MatchingLines) = 1
    /\ \E i \in MatchingLines :
          /\ ValueIn(OldLines[i], last.setting) = <<QUOTE, "a", QUOTE>>
          /\ last.value = <<"b">>
          /\ NewLines[i] # OldLines[i]

\* C10: the second of two sets in a row with the same file, setting and value
\* leaves every file byte for byte as the first left it.
C10_Idempotent ==
    (SetWrote /\ last.again) => fs = prev

\* The text without its double quotes
RECURSIVE Unquoted(_)
Unquoted(s) ==
    IF s = <<>> THEN <<>>
    ELSE IF s[1] = QUOTE THEN Unquoted(Tail(s))
    ELSE <<s[1]>> \o Unquoted(Tail(s))

\* C11: on each line that matches the setting, set replaces the captured value
\* only: what stands before the value (leading space, setting, colon) is as it
\* was and what follows it is the new value, quoted or not, also when the old
\* value occurs elsewhere in the line or is empty.
C11_OnlyValue ==
    SetWrote
    => \A i \in MatchingLines :
          LET m == ReSearch(OldLines[i], last.setting)
              before == SubSeq(OldLines[i], 1, m.start - 1)
          IN  /\ i <= Len(NewLines)
              /\ Len(NewLines[i]) >= Len(before)
              /\ SubSeq(NewLines[i], 1, Len(before)) = before
              /\ Unquoted(SubSeq(NewLines[i], Len(before) + 1, Len(NewLines[i])))
                    = last.value

\* C12: with several lines that match the setting, each line gets the new
\* value quoted as that line's own old value was: bare for an unquoted old
\* value, in one pair of quotes for a quoted one, whatever the earlier lines.
C12_QuotesPerLine ==
    (SetWrote /\ Cardinality(MatchingLines) >= 2)
    => \A i \in MatchingLines :
          LET old == ValueIn(OldLines[i], last.setting)
              written == IF old # <<>> /\ old[1] = QUOTE
                         THEN <<QUOTE>> \o last.value \o <<QUOTE>>
                         ELSE last.value
          IN  /\ i <= Len(NewLines)
              /\ NewLines[i] = ReSub(old, written, OldLines[i])

\* What get(name, setting) returns for the tree as it is
GetNow == GetFrom(fs, last.found, last.setting, 1)

\* The value get read before the call, if any, was quoted
WasQuoted ==
    LET m == ReSearch(prev[last.found[1]], last.setting)
    IN  m.matched /\ m.group # <<>> /\ m.group[1] = QUOTE

\* C14: after set(name, setting, v), get(name, setting) returns v, or v in
\* double quotes when the value before was quoted, for every content of the
\* file, the setting split from its colon by a line break included.
C14_SetThenGet ==
    SetWrote
    => /\ GetNow.outcome = "value"
       /\ GetNow.ret = IF WasQuoted
                       THEN <<QUOTE>> \o last.value \o <<QUOTE>>
                       ELSE last.value

\* The line's key is the setting: the setting and its colon follow the
\* leading space / the line holds a colon
ExactKey(line, setting) == KeyAt(line, setting, SkipSpace(line, 1))
HasColon(line) == \E n \in DOMAIN line : line[n] = ":"

\* C15: set changes no line whose key is another one than the setting, such
\* as a key that ends with the setting.
C15_ExactKeyOnly ==
    SetWrote
    => \A i \in DOMAIN OldLines :
          (HasColon(OldLines[i]) /\ ~ExactKey(OldLines[i], last.setting))
          => (i <= Len(NewLines) /\ NewLines[i] = OldLines[i])

\* The text without leading and trailing spaces
RECURSIVE Trim(_)
Trim(s) ==
    IF s = <<>> THEN <<>>
    ELSE IF IsSpace(s[1]) THEN Trim(Tail(s))
    ELSE IF IsSpace(s[Len(s)]) THEN Trim(SubSeq(s, 1, Len(s) - 1))
    ELSE s

\* C16: for a file whose first occurrence of the setting has its colon on the
\* same line, get returns the rest of that line, trimmed; for an empty value
\* it returns no text of the next line.
C16_GetSameLine ==
    LET text == prev[last.found[1]]
        j == CHOOSE x \in KeyPositions(text, last.setting) :
                 \A y \in KeyPositions(text, last.setting) : x <= y
        c == SkipSpace(text, j + Len(last.setting))
    IN  (/\ last.op = "get" /\ last.found # <<>>
         /\ KeyPositions(text, last.setting) # {}
         /\ EndOfLine(text, j) > c)
        => /\ last.outcome = "value"
           /\ last.ret = Trim(SubSeq(text, c + 1, EndOfLine(text, c + 1) - 1))

-----------------------------------------------------------------------------
(* Process supervision: claims *)

\* The live processes of the table whose name starts with the server's
ProcessesOf(table, server) == {p \in DOMAIN table : table[p][1] = server}

\* The pid file of the server names a live process of the server
PidFileLive(table, pf, server) ==
    /\ server \in DOMAIN pf
    /\ pf[server] \in ProcessesOf(table, server)

\* C13: in _kill_server, for a server that is running or orphaned, terminate is
\* always sent first, and kill follows exactly when the process has not exited
\* within the 10 seconds of the wait.
C13_TerminateFirst ==
    (run.op = "kill" /\ run.status.status \in {"running", "orphaned"}) =>
        /\ Len(run.signals) >= 1
        /\ run.signals[1][1] = "terminate"
        /\ (run.delay < 10 => Len(run.signals) = 1)
        /\ (run.delay >= 10 =>
               /\ Len(run.signals) = 2
               /\ run.signals[2] = <<"kill", run.signals[1][2]>>)

C18_RunningUntouched ==
    (/\ run.op = "run"
     /\ ~run.force
     /\ PidFileLive(run.procs, run.pidfile, run.server)) =>
        /\ run.launched = 0
        /\ run.signals = <<>>
        /\ run.outcome = "returned"
        /\ pidfile = run.pidfile
        /\ procs = run.procs

\* _run_executable without force was called on a running server
C18_Witness ==
    /\ run.op = "run"
    /\ ~run.force
    /\ run.status.status = "running"
    /\ run.server \in DOMAIN pidfile

\* C19: _run_executable terminates every orphaned process of the server, removes
\* the pid file of a missing one, and after it succeeded exactly one process
\* of the server is alive.
C19_CleansUp ==
    run.op = "run" =>
        /\ run.status.status = "orphaned" =>
               \A p \in ProcessesOf(run.procs, run.server) :
                   /\ p \notin DOMAIN procs \/ p = run.launched
                   /\ \E i \in DOMAIN run.signals :
                          run.signals[i] = <<"terminate", p>>
        /\ run.status.status = "missing" =>
               (run.server \in DOMAIN pidfile =>
                    /\ run.outcome = "started"
                    /\ pidfile[run.server] = run.launched)
        /\ run.outcome = "started" =>
               ProcessesOf(procs, run.server) = {run.launched}

\* C20: when _run_executable launched a process and returned, the pid file holds
\* the pid of that process and _get_status returns ('running', that pid);
\* when the launched process is not found OSError is raised and the server
\* has no pid file.
C20_PidFileOfLaunched ==
    run.op = "run" =>
        /\ run.outcome = "started" =>
               /\ run.launched \in Pids
               /\ run.launched \notin DOMAIN run.procs
                      \/ <<"terminate", run.launched>>
                             \in {run.signals[i] : i \in DOMAIN run.signals}
               /\ run.server \in DOMAIN pidfile
               /\ pidfile[run.server] = run.launched
               /\ GetStatusOf(procs, pidfile, run.server)
                      = [status |-> "running", pids |-> <<run.launched>>]
        /\ run.outcome = "OSError" =>
               /\ run.server \notin DOMAIN pidfile
               /\ run.launched \notin DOMAIN procs

\* A forced restart of a running server stored the pid of the new process
C20_Witness ==
    /\ run.op = "run"
    /\ run.force
    /\ run.status.status = "running"
    /\ run.outcome = "started"
    /\ pidfile[run.server] = run.launched

\* C21: after stop() returned no server has a pid file and no process whose
\* name starts with a server's name is alive, whatever the status of each
\* server was before.
C21_StopLeavesNothing ==
    (run.op = "stop" /\ run.outcome = "returned") =>
        \A server \in ServerSet :
            /\ server \notin DOMAIN pidfile
            /\ ProcessesOf(procs, server) = {}

\* C22: start() launches every server that is not already running, in the
\* order map-server, char-server, login-server; when a launch fails it raises
\* OSError and launches none of the later servers.
C22_StartLaunches ==
    run.op = "start" =>
        LET NotRunning(server) ==
                ~PidFileLive(run.procs, run.pidfile, server)
            wanted == SelectSeq(<<"map-server", "char-server", "login-server">>,
                                NotRunning)
        IN  /\ run.outcome \in {"returned", "OSError"}
            /\ run.outcome = "returned" => run.started = wanted
            /\ run.outcome = "OSError" =>
                   /\ Len(run.started) <= Len(wanted)
                   /\ run.started = SubSeq(wanted, 1, Len(run.started))

-----------------------------------------------------------------------------
(* The SQL side: claims *)

\* C23: _wait_for_database(timeout) ends for every timeout >= 0, either with
\* True at the first poll that finds the database ok, or with IOError after
\* exactly timeout failed polls, and with no other exception.
C23_WaitEnds ==
    sql.op = "wait" =>
        \/ /\ sql.outcome = "True"
           /\ sql.polls \in 1..sql.timeout
           /\ sql.seen[sql.polls] = "ok"
           /\ \A i \in 1..(sql.polls - 1) : sql.seen[i] = "down"
        \/ /\ sql.outcome = "IOError"
           /\ sql.polls = sql.timeout
           /\ \A i \in 1..sql.polls : sql.seen[i] = "down"

\* C24: sql_upgrades without force and with the build date 'unknown' raises
\* KeyError, imports no file and executes no statement.
C24_UnknownRefused ==
    (sql.op = "upgrades" /\ ~sql.force /\ build_date = "unknown") =>
        /\ sql.outcome = "KeyError"
        /\ sql.imported = <<>>
        /\ sql.executed = <<>>
        /\ sql.polls = 0

\* sql_upgrades was called without force, the build date unknown and a dated
\* upgrade file waiting
C24_Witness ==
    /\ sql.op = "upgrades"
    /\ ~sql.force
    /\ build_date = "unknown"
    /\ <<"upgrades", "2019-01-02--00-00", ".sql">> \in DOMAIN sqlfiles

\* The place of a stem in the ascending order of the file names
StemPos(stem) == CHOOSE k \in DOMAIN Stems : Stems[k] = stem

\* The *.sql files of sql-files/upgrades dated strictly later than the build
NewerUpgrades ==
    {f \in DOMAIN sqlfiles :
        /\ f[1] = "upgrades"
        /\ f[3] = ".sql"
        /\ UpgradeDate(f[2]) # NoDate
        /\ UpgradeDate(f[2]) > BuildDate(build_date)}

\* s lists files in ascending order of their names, each once
Ascending(s) ==
    \A i, j \in DOMAIN s : i < j => StemPos(s[i][2]) < StemPos(s[j][2])

\* C25: with a known build date sql_upgrades imports exactly the *.sql files of
\* sql-files/upgrades dated strictly later than the build, in ascending order
\* of their names, and never a file without date or dated at or before the
\* build.
C25_ImportsNewer ==
    (sql.op = "upgrades" /\ BuildDate(build_date) # NoDate) =>
        /\ {sql.imported[i] : i \in DOMAIN sql.imported} = NewerUpgrades
        /\ Ascending(sql.imported)

\* C25 (amended): the same when sql_upgrades returns; when the database is not
\* available at an import the call ends with the exception of import_sql,
\* having imported the files before that one, in ascending order.
C25_ImportsNewerWhileUp ==
    (sql.op = "upgrades" /\ BuildDate(build_date) # NoDate) =>
        /\ Ascending(sql.imported)
        /\ {sql.imported[i] : i \in DOMAIN sql.imported} \subseteq NewerUpgrades
        /\ sql.outcome \in {"returned", "IOError", "AttributeError"}
        /\ sql.outcome = "returned" =>
               {sql.imported[i] : i \in DOMAIN sql.imported} = NewerUpgrades
        /\ sql.outcome # "returned" =>
               /\ sql.seen[Len(sql.seen)] # "ok"
               /\ \A f \in NewerUpgrades :
                      f \in {sql.imported[i] : i \in DOMAIN sql.imported}
                          \/ \A i \in DOMAIN sql.imported :
                                 StemPos(sql.imported[i][2]) < StemPos(f[2])

\* sql_upgrades returned having imported two of the five files of the upgrade
\* directory: not the one of the build's date, not the one without date, not
\* the text file
C25_Witness ==
    /\ sql.op = "upgrades"
    /\ sql.outcome = "returned"
    /\ build_date = "2019-01-01_00-00-00"
    /\ {f \in SqlNames : f[1] = "upgrades"} \subseteq DOMAIN sqlfiles
    /\ sql.imported = << <<"upgrades", "2019-01-02--00-00", ".sql">>,
                         <<"upgrades", "2019-1-1--12-0", ".sql">> >>

\* The lines of the imported file
SqlLines == sqlfiles[sql.file]

\* The lines import_sql does not skip: not starting with -- or #, not blank
KeptLine(line) ==
    /\ Strip(line) # <<>>
    /\ line[1] # "#"
    /\ ~(Len(line) >= 2 /\ line[1] = "-" /\ line[2] = "-")

\* The numbers of the kept lines that end a statement
Terminators ==
    {i \in DOMAIN SqlLines :
        KeptLine(SqlLines[i]) /\ Strip(SqlLines[i])[Len(Strip(SqlLines[i]))] = ";"}

\* The number of the line that ends the k-th statement (0 for k = 0)
TerminatorOf(k) ==
    IF k = 0 THEN 0
    ELSE CHOOSE t \in Terminators :
             Cardinality({u \in Terminators : u <= t}) = k

\* The kept lines from..to, stripped and each followed by a space
RECURSIVE JoinKept(_, _)
JoinKept(from, to) ==
    IF from > to THEN <<>>
    ELSE (IF KeptLine(SqlLines[from])
          THEN Strip(SqlLines[from]) \o <<" ">> ELSE <<>>)
         \o JoinKept(from + 1, to)

\* C26: import_sql executes, in file order and each once, the statements made
\* of the lines that are no comment and not blank, accumulated up to a line
\* that ends with a semicolon; a statement that fails is logged and the later
\* ones are executed all the same.
C26_Statements ==
    sql.op = "import" =>
        IF sql.outcome = "returned"
        THEN /\ Len(sql.executed) = Cardinality(Terminators)
             /\ \A k \in DOMAIN sql.executed :
                    sql.executed[k]
                        = JoinKept(TerminatorOf(k - 1) + 1, TerminatorOf(k))
             /\ sql.errors \subseteq DOMAIN sql.executed
        ELSE sql.executed = <<>> /\ sql.errors = {}

\* import_sql skipped a comment and executed two statements of which the first
\* failed
C26_Witness ==
    /\ sql.op = "import"
    /\ sql.outcome = "returned"
    /\ Len(sql.executed) = 2
    /\ sql.errors = {1}
    /\ \E i \in DOMAIN SqlLines : ~KeptLine(SqlLines[i])

=============================================================================
